---- MODULE Spec2Model ----
(***************************************************************************)
(* Model of the WhatsApp AI bot, in four specifications:                   *)
(*   Spec        - ConversationManager (the in-memory conversation store), *)
(*                 cleanupExpiredConversations, limitConversationMessages  *)
(*                 and AIService.generateResponse, split at its single     *)
(*                 await (the provider call generateText) into the part    *)
(*                 before it and the continuation after it (success) or    *)
(*                 the catch block (failure);                              *)
(*   BotSpec     - WhatsAppBot: the connection.update handler, its         *)
(*                 reconnect timers, the credential store and the sends    *)
(*                 asked of the socket by the handler and the API routes   *)
(*                 (BotLiveSpec adds that timers fire);                    *)
(*   HandlerSpec - one call of a generate variant (tool selection,         *)
(*                 response building and error wrapping) and               *)
(*                 MessageHandler.handleMessage for one inbound message    *)
(*                 that triggers the AI, with its calls of                 *)
(*                 saveMessageToSheets.                                    *)
(* Node runs each synchronous part to completion, so each part is one      *)
(* atomic action; any number of calls may be suspended at an await.        *)
(***************************************************************************)
EXTENDS Integers, Sequences, FiniteSets, TLC

\* ---------------------------------------------------------------- bounds
MaxCalls == 3          \* generate calls received in one behaviour
MaxTicks == 2          \* clock advances in one behaviour
MaxCloses == 3         \* close events delivered to the connection.update handler
MaxSources == 2        \* sources in a provider result
MaxToolCalls == 2      \* explicit tool-call records in a provider result

\* ---------------------------------------------------------------- inputs
ChatIds == {"c1", "c2"}
NoChat == "undefined"              \* generateResponse called without chatId
Prompts == {"p1"}
Texts == {"r1"}                    \* result.text of the provider
MaxMessagesOptions == {0, 1}       \* options.maxMessages; 0 stands for unset

\* ------------------------------------------------------ program constants
MAX_HISTORY_AGE == 24 * 60 * 60 * 1000
DEFAULT_MAX_MESSAGES == 20

VARIABLES
    conversationHistory,  \* ConversationManager.conversationHistory (a Map)
    now,                  \* Date.now(), in milliseconds
    received,             \* number of generateResponse calls received so far
    calls,                \* the calls suspended at the provider call, by receipt number
    lastDone              \* history: per id, the last call that returned (see NoneDone)

\* WhatsAppBot (the connection supervisor) and the callers of its socket
VARIABLES
    sock,                 \* WhatsAppBot.sock (see NoSock)
    isReconnecting,       \* WhatsAppBot.isReconnecting
    timers,               \* number of reconnect callbacks scheduled with setTimeout
    attempts,             \* number of connectToWhatsApp calls dispatched so far
    credentials,          \* whether store/auth holds the credentials of a session
    connection,           \* history: the last connection.update seen (see Connections)
    lastClose,            \* history: the close events handled so far and the last reason
    wipeDue,              \* history: a logged-out close awaits its fresh connection attempt
    lastSend              \* history: the last send asked of the bot (see NoSend)

\* one call of a generate variant (AIService) and one inbound message (MessageHandler)
VARIABLES
    generation,           \* the generate call: its variant, the provider's outcome, its result
    handling              \* the handling of one inbound message (see HandlingIdle)

aiVars == <<conversationHistory, now, received, calls, lastDone>>
botVars == <<sock, isReconnecting, timers, attempts, credentials, connection,
             lastClose, wipeDue, lastSend>>
genVars == <<generation>>
handlerVars == <<handling>>

vars == <<aiVars, botVars, genVars, handlerVars>>

\* ---------------------------------------------------------------- helpers
Max(a, b) == IF a > b THEN a ELSE b
Min(a, b) == IF a < b THEN a ELSE b

EmptyMap == [c \in {} |-> 0]

\* Map.prototype.set
MapSet(m, k, v) == [c \in (DOMAIN m) \cup {k} |-> IF c = k THEN v ELSE m[c]]

\* Map.prototype.delete
MapDelete(m, k) == [c \in (DOMAIN m) \ {k} |-> m[c]]

\* Array.prototype.slice(start) with one argument
slice(arr, start) ==
    LET len == Len(arr)
        k == IF start < 0 THEN Max(len + start, 0) ELSE Min(start, len)
    IN SubSeq(arr, k + 1, len)

\* ------------------------------------------------------------- ai-utils
cleanupExpiredConversations_GE(history, maxAge, t) ==
    [c \in {d \in DOMAIN history : ~(t - history[d].lastActivity >= maxAge)}
        |-> history[c]]

cleanupExpiredConversations(history, maxAge, t) ==
    [c \in {d \in DOMAIN history : ~(t - history[d].lastActivity > maxAge)}
        |-> history[c]]

limitConversationMessages_Oldest(messages, maxMessages) ==
    IF Len(messages) > maxMessages * 2
    THEN SelectSeq(messages, LAMBDA m : m.role = "system")
            \o SubSeq(messages, 1, maxMessages * 2)
    ELSE messages

limitConversationMessages_LateThreshold(messages, maxMessages) ==
    IF Len(messages) > maxMessages * 2 + 2
    THEN SelectSeq(messages, LAMBDA m : m.role = "system")
            \o slice(messages, -maxMessages * 2)
    ELSE messages

limitConversationMessages_Odd(messages, maxMessages) ==
    IF Len(messages) > maxMessages * 2
    THEN SelectSeq(messages, LAMBDA m : m.role = "system")
            \o slice(messages, -(maxMessages * 2 - 1))
    ELSE messages

limitConversationMessages(messages, maxMessages) ==
    IF Len(messages) > maxMessages * 2
    THEN SelectSeq(messages, LAMBDA m : m.role = "system")
            \o slice(messages, -maxMessages * 2)
    ELSE messages

\* ------------------------------------------------- ConversationManager
NewContext(chatId, t) == [chatId |-> chatId, messages |-> <<>>, lastActivity |-> t]

\* The result is the map after the call and the context object returned.
\* The context object is fetched (or created) before the sweep, so when the
\* sweep deletes chatId's entry the returned object is no longer in the map
\* and the truncation is applied to that detached object only.
getConversationContext_NoWriteBack(history, chatId, maxMessages, t) ==
    LET h1 == IF chatId \in DOMAIN history THEN history
              ELSE MapSet(history, chatId, NewContext(chatId, t))
        context == h1[chatId]
        h2 == cleanupExpiredConversations(h1, MAX_HISTORY_AGE, t)
        limited == limitConversationMessages(context.messages, maxMessages)
    IN [history |-> h2, context |-> [context EXCEPT !.messages = limited]]

getConversationContext(history, chatId, maxMessages, t) ==
    LET h1 == IF chatId \in DOMAIN history THEN history
              ELSE MapSet(history, chatId, NewContext(chatId, t))
        context == h1[chatId]
        h2 == cleanupExpiredConversations(h1, MAX_HISTORY_AGE, t)
        limited == limitConversationMessages(context.messages, maxMessages)
        h3 == IF chatId \in DOMAIN h2
              THEN [h2 EXCEPT ![chatId].messages = limited]
              ELSE h2
    IN [history |-> h3, context |-> [context EXCEPT !.messages = limited]]

addToConversationHistory_Create(history, chatId, userMessage, assistantMessage, t) ==
    LET context == IF chatId \in DOMAIN history THEN history[chatId]
                   ELSE NewContext(chatId, t)
    IN MapSet(history, chatId,
              [context EXCEPT !.messages = @ \o <<userMessage, assistantMessage>>,
                              !.lastActivity = t])

addToConversationHistory(history, chatId, userMessage, assistantMessage, t) ==
    IF chatId \in DOMAIN history
    THEN [history EXCEPT ![chatId] =
            [@ EXCEPT !.messages = @ \o <<userMessage, assistantMessage>>,
                      !.lastActivity = t]]
    ELSE history

clearConversation_KeepsEntry(history, chatId) ==
    IF chatId \in DOMAIN history
    THEN [history EXCEPT ![chatId].messages = <<>>]
    ELSE history

clearConversation(history, chatId) == MapDelete(history, chatId)

\* null, where a Date is expected
Null == -1

getConversationSummary(history, chatId) ==
    IF chatId \in DOMAIN history
    THEN [messageCount |-> Len(history[chatId].messages),
          lastActivity |-> history[chatId].lastActivity]
    ELSE [messageCount |-> 0, lastActivity |-> Null]

\* ------------------------------------------------------------ messages
\* A turn carries, besides role and content, the receipt number of the call
\* that built it (history only: the code never reads it).
UserMessage(prompt, n) == [role |-> "user", content |-> prompt, call |-> n]
AssistantMessage(text, n) == [role |-> "assistant", content |-> text, call |-> n]

\* options.maxMessages || 20
Window(maxMessagesOption) ==
    IF maxMessagesOption = 0 THEN DEFAULT_MAX_MESSAGES ELSE maxMessagesOption

\* ---------------------------------------------------------------- state
\* The entry of chatId as getConversationSummary would see it.
NoEntry == [present |-> FALSE, messages |-> <<>>, lastActivity |-> 0]
EntryOf(history, chatId) ==
    IF chatId \in DOMAIN history
    THEN [present |-> TRUE, messages |-> history[chatId].messages,
          lastActivity |-> history[chatId].lastActivity]
    ELSE NoEntry

Expired(history, chatId, t) ==
    chatId \in DOMAIN history /\ t - history[chatId].lastActivity > MAX_HISTORY_AGE

\* The clock advances by the retention window and by one millisecond in turn:
\* 0, 24h, 24h+1ms, 48h+1ms, ...  so that an entry can be exactly 24h old (not
\* expired), 24h+1ms old (expired) and 1ms old.  Ticks(t) is the number of
\* advances that led to time t.
Ticks(t) == (t \div MAX_HISTORY_AGE) + (t % MAX_HISTORY_AGE)
TickStep(t) == IF Ticks(t) % 2 = 0 THEN MAX_HISTORY_AGE ELSE 1

\* lastDone[id].call is the receipt number of the last call for id that
\* returned from the provider, 0 when there is none or when, after it
\* returned, clearConversation(id) ran or the TTL sweep deleted id's entry;
\* lastDone[id].cleared and .swept tell whether clearConversation(id) ran,
\* and whether another call's TTL sweep deleted id's entry, while that call
\* was suspended.
NoneDone == [call |-> 0, cleared |-> FALSE, swept |-> FALSE]

\* ------------------------------------------- generate variants: values
Variants == {"generateResponse", "generateWithThinking", "generateWithMedia"}

\* the tool flags of AIServiceOptions
NoOptions == [useSearch |-> FALSE, useUrlContext |-> FALSE, useCodeExecution |-> FALSE]
Options == [useSearch : BOOLEAN, useUrlContext : BOOLEAN, useCodeExecution : BOOLEAN]

\* the tools handed to generateText: undefined, or an object with these keys
NoTools == [defined |-> FALSE, keys |-> {}]

\* the other arguments of a generate call: the prompt, senderName ("" when
\* it is not given) and whether chatId names a group (it ends in @g.us)
NoCall == [prompt |-> "", senderName |-> "", group |-> FALSE]
Calls == [prompt : Prompts, senderName : {"", "API User"}, group : BOOLEAN]

\* result.text of the provider, the empty text included
ResultTexts == Texts \cup {""}

\* A value that is an array of reasoning parts or a string (the reasoning
\* of a raw result is the first, the reasoning of an AIResponse the second).
ReasoningParts(parts) == [isArray |-> TRUE, parts |-> parts, text |-> ""]
ReasoningString(text) == [isArray |-> FALSE, parts |-> <<>>, text |-> text]

\* the reasoning of a raw result: no fragment, two fragments (reasoningText is
\* their text), or a scalar string
RawReasonings ==
    {[reasoning |-> ReasoningParts(<<>>), reasoningText |-> ""],
     [reasoning |-> ReasoningParts(<<"why", "so">>), reasoningText |-> "whyso"],
     [reasoning |-> ReasoningString("why"), reasoningText |-> ""]}

NoReasoning == [reasoning |-> ReasoningParts(<<>>), reasoningText |-> ""]

\* the raw result of generateText: text, sources, the presence of
\* providerMetadata.google.groundingMetadata, the tool-call records, and the
\* reasoning (thought, one of RawReasonings)
RawResult(text, nSources, grounding, nToolCalls, thought) ==
    [text |-> text,
     sources |-> [i \in 1..nSources |-> [sourceType |-> "url", id |-> "source"]],
     grounding |-> grounding,
     toolCalls |-> [i \in 1..nToolCalls |->
                        [toolCallId |-> "call",
                         toolName |-> IF i % 2 = 1 THEN "google_search"
                                      ELSE "url_context",
                         args |-> "args"]],
     reasoning |-> thought.reasoning,
     reasoningText |-> thought.reasoningText]

RawResults ==
    {RawResult(text, nSources, grounding, nToolCalls, thought) :
        text \in ResultTexts, nSources \in 0..MaxSources,
        grounding \in BOOLEAN, nToolCalls \in 0..MaxToolCalls,
        thought \in RawReasonings}

\* what generateText rejects with: an Error with a message, or a value that
\* is not an Error
ThrownValues ==
    {[isError |-> TRUE, message |-> "quota exceeded"],
     [isError |-> FALSE, message |-> "undefined"]}

NoResult == RawResult("", 0, FALSE, 0, NoReasoning)
NoThrown == [isError |-> FALSE, message |-> "none"]
NoResponse == [content |-> "", sources |-> <<>>, reasoning |-> ReasoningString(""),
               toolCalls |-> <<>>]
NoError == [wrapped |-> FALSE, prefix |-> "none", detail |-> "none"]

\* generation.pc: "idle", "awaiting" (at await generateText), "returned"
\* (response holds the AIResponse), "thrown" (error holds what the caller gets)
\* (options holds the tool flags of the call, tools what it hands to
\* generateText, call its other arguments, userMessage the text of the user
\* turn it built)
GenIdle ==
    [pc |-> "idle", variant |-> "none", caller |-> "none", options |-> NoOptions,
     tools |-> NoTools, call |-> NoCall, userMessage |-> "", result |-> NoResult,
     thrown |-> NoThrown, response |-> NoResponse, error |-> NoError]

\* --------------------------------------------- MessageHandler: values
\* what the chat receives: the apology of the catch blocks, the request for
\* a message, or the reply (text stands for the content line of responseText)
\* (sources and tools stand for the source list and the tool-usage annotation)
Apology == [kind |-> "apology",
            text |-> "Sorry, I encountered an error processing your request. Please try again later.",
            sources |-> 0, tools |-> <<>>]
PleaseProvide == [kind |-> "provide", text |-> "Please provide a message.",
                  sources |-> 0, tools |-> <<>>]

\* generateHelpMessage: the message that lists the commands
HelpMessage == [kind |-> "help", text |-> "AI WhatsApp Bot Commands",
                sources |-> 0, tools |-> <<>>]

\* the content of an inbound message that triggers the AI (shouldTriggerAI):
\* one of the triggers, followed by a text that may be empty
Commands == {"/ai", "/search", "/ask", "/help", "/code", "/think"}
Contents == [command : Commands, body : Prompts \cup {""}]

\* a content without a trigger, and the content of a message that has none
Chatter == [command : {""}, body : Prompts]
NoContent == [command |-> "", body |-> ""]

\* a raw message of a messages.upsert batch: the first key of m.message,
\* key.fromMe, whether key.remoteJid is a group, and the content extracted
Inbound ==
    [type : {"conversation"}, fromMe : BOOLEAN, group : BOOLEAN,
     content : Contents \cup Chatter]
    \cup [type : {"protocolMessage"}, fromMe : BOOLEAN, group : {FALSE},
          content : {NoContent}]

\* the calls of saveMessageToSheets made for one inbound message: "none"
\* (not made), "pending" (at await appendMessage), "saved", "failed"
NoLogs == [inbound |-> "none", outbound |-> "none"]

\* handling.pc names the await at which handleMessage / handleAIMessage is
\* suspended; delivered is what the chat received; pending tells whether an
\* exception is on its way out of handleAIMessage; transportFailed and
\* aiFailed are history; outcome is how handleMessage ended; useThinking,
\* options, prompt and isHelp are what parseAICommand returned; logs are the
\* calls of saveMessageToSheets (see NoLogs).  type, fromMe, group, command
\* and bare (nothing follows the command) describe the message; presence is
\* the presence updates that settled, in order, each with whether it
\* succeeded; handed is the records handed to saveMessageToSheets, in order.
HandlingIdle ==
    [pc |-> "idle", type |-> "none", fromMe |-> FALSE, group |-> FALSE,
     command |-> "", bare |-> FALSE,
     useThinking |-> FALSE, options |-> NoOptions, prompt |-> "",
     isHelp |-> FALSE, delivered |-> <<>>, presence |-> <<>>, pending |-> FALSE,
     transportFailed |-> FALSE, aiFailed |-> FALSE, outcome |-> "none",
     logs |-> NoLogs, handed |-> <<>>]

\* ------------------------------------------------- WhatsAppBot: values
\* sock.id is 0 for null and else the number of sockets made so far;
\* sock.registered tells whether the socket was made with the credentials of
\* a session (the auth state useMultiFileAuthState read from store/auth).
NoSock == [id |-> 0, registered |-> FALSE]

\* lastDisconnect.error.output.statusCode by the name of its DisconnectReason;
\* "undefined" is a close without a status code.
LoggedOut == "loggedOut"
Transient == {"restartRequired", "connectionLost", "connectionClosed", "timedOut"}
Unrecognized == {"badSession", "undefined"}
Reasons == {LoggedOut} \cup Transient \cup Unrecognized

\* the connection field of the last connection.update handled; "connecting"
\* from the making of a socket on, "none" before the first socket
Connections == {"none", "connecting", "open", "close"}

\* lastClose.n counts the close events handled, .reason is the reason of the
\* last one, .attempts the connection attempts dispatched before it and
\* .scheduled whether its handler scheduled a reconnect.
NoClose == [n |-> 0, reason |-> "none", attempts |-> 0, scheduled |-> FALSE]

\* lastSend.via is the socket method asked for, .reached whether the call got
\* to the socket, .connection the connection state at that moment; for a send
\* asked through the API, .route is the route and .answer what it answered
\* ("success", or "error" for a status of 4xx or 5xx).
NoSend == [via |-> "none", reached |-> FALSE, connection |-> "none",
           route |-> "none", answer |-> "none"]

BotIdle ==
    /\ sock = NoSock
    /\ isReconnecting = FALSE
    /\ timers = 0
    /\ attempts = 0
    /\ connection = "none"
    /\ lastClose = NoClose
    /\ wipeDue = FALSE
    /\ lastSend = NoSend

Init ==
    /\ conversationHistory = EmptyMap
    /\ now = 0
    /\ received = 0
    /\ calls = EmptyMap
    /\ lastDone = [c \in ChatIds |-> NoneDone]
    /\ BotIdle /\ credentials = FALSE
    /\ generation = GenIdle
    /\ handling = HandlingIdle

\* generateResponse up to the await of generateText.  The suspended call keeps
\* its locals (chatId, userMessage, messages).  The other fields are history:
\* w, the window it passed to getConversationContext; before, the entry of
\* chatId when the call was received; appended, the exchanges appended to
\* chatId's entry since; cleared, whether clearConversation(chatId) ran since;
\* swept, whether a later call's TTL sweep deleted chatId's entry since.
GenerateStart(chatId, maxMessagesOption, prompt) ==
    LET n == received + 1
        w == Window(maxMessagesOption)
        got == getConversationContext(conversationHistory, chatId, w, now)
        userMessage == UserMessage(prompt, n)
        messages == IF chatId = NoChat THEN <<userMessage>>
                    ELSE got.context.messages \o <<userMessage>>
    IN /\ received < MaxCalls
       /\ received' = n
       /\ conversationHistory' =
            IF chatId = NoChat THEN conversationHistory ELSE got.history
       /\ calls' = MapSet(
            [i \in DOMAIN calls |->
                IF calls[i].chatId \in DOMAIN conversationHistory
                   /\ calls[i].chatId \notin DOMAIN conversationHistory'
                THEN [calls[i] EXCEPT !.swept = TRUE] ELSE calls[i]],
            n,
            [chatId |-> chatId, userMessage |-> userMessage, messages |-> messages,
             w |-> w, before |-> EntryOf(conversationHistory, chatId),
             appended |-> 0, cleared |-> FALSE, swept |-> FALSE])
       /\ lastDone' = [c \in ChatIds |->
                        IF c \in DOMAIN conversationHistory
                           /\ c \notin DOMAIN conversationHistory'
                        THEN NoneDone ELSE lastDone[c]]
       /\ now' = now
       /\ UNCHANGED <<botVars, genVars, handlerVars>>

\* generateResponse after generateText resolved
ProviderReturn(n, text) ==
    LET call == calls[n]
        assistantMessage == AssistantMessage(text, n)
    IN /\ n \in DOMAIN calls
       /\ conversationHistory' =
            IF call.chatId = NoChat THEN conversationHistory
            ELSE addToConversationHistory(conversationHistory, call.chatId,
                                          call.userMessage, assistantMessage, now)
       /\ calls' = [i \in (DOMAIN calls) \ {n} |->
                    IF calls[i].chatId = call.chatId
                       /\ call.chatId \in DOMAIN conversationHistory
                    THEN [calls[i] EXCEPT !.appended = @ + 1] ELSE calls[i]]
       /\ lastDone' = IF call.chatId = NoChat THEN lastDone
                      ELSE [lastDone EXCEPT ![call.chatId] =
                                [call |-> n, cleared |-> call.cleared,
                                 swept |-> call.swept]]
       /\ UNCHANGED <<now, received, botVars, genVars, handlerVars>>

\* generateResponse when generateText rejected: the catch block
ProviderThrow_PartialAppend(n) ==
    LET call == calls[n]
    IN /\ n \in DOMAIN calls
       /\ conversationHistory' =
            IF call.chatId \in DOMAIN conversationHistory
            THEN [conversationHistory EXCEPT ![call.chatId].messages =
                    Append(@, call.userMessage)]
            ELSE conversationHistory
       /\ calls' = MapDelete(calls, n)
       /\ UNCHANGED <<now, received, lastDone, botVars, genVars, handlerVars>>

ProviderThrow(n) ==
    /\ n \in DOMAIN calls
    /\ calls' = MapDelete(calls, n)
    /\ UNCHANGED <<conversationHistory, now, received, lastDone,
                   botVars, genVars, handlerVars>>

\* AIService.clearConversation (DELETE /api/conversation/:chatId)
ClearConversation(chatId) ==
    /\ conversationHistory' = clearConversation(conversationHistory, chatId)
    /\ calls' = [i \in DOMAIN calls |->
                    IF calls[i].chatId = chatId
                    THEN [calls[i] EXCEPT !.cleared = TRUE] ELSE calls[i]]
    /\ lastDone' = [lastDone EXCEPT ![chatId] = NoneDone]
    /\ UNCHANGED <<now, received, botVars, genVars, handlerVars>>

\* time passes (Date.now() / new Date() read a later time)
Tick ==
    /\ Ticks(now) < MaxTicks
    /\ now' = now + TickStep(now)
    /\ UNCHANGED <<conversationHistory, received, calls, lastDone,
                   botVars, genVars, handlerVars>>

Next ==
    \/ \E chatId \in ChatIds \cup {NoChat}, m \in MaxMessagesOptions, p \in Prompts :
          GenerateStart(chatId, m, p)
    \/ \E n \in DOMAIN calls, text \in Texts : ProviderReturn(n, text)
    \/ \E n \in DOMAIN calls : ProviderThrow(n)
    \/ \E chatId \in ChatIds : ClearConversation(chatId)
    \/ Tick

Spec == Init /\ [][Next]_vars

\* ------------------------------------------------ WhatsAppBot: actions
\* const shouldReconnect = !isLoggedOut && !this.isReconnecting
shouldReconnect_IgnoresFlag(isLoggedOut, reconnecting) == ~isLoggedOut

shouldReconnect(isLoggedOut, reconnecting) == ~isLoggedOut /\ ~reconnecting

\* isConnectionLost || isConnectionClosed || isTimedOut || isRestartRequired
isReconnectable_AnyReason(reason) == reason # LoggedOut

isReconnectable(reason) == reason \in Transient

\* connectToWhatsApp calls dispatched and still at await useMultiFileAuthState
InProgress == attempts - sock.id

AIIdle ==
    /\ conversationHistory = EmptyMap
    /\ now = 0
    /\ received = 0
    /\ calls = EmptyMap
    /\ lastDone = [c \in ChatIds |-> NoneDone]

BotInit ==
    /\ AIIdle
    /\ BotIdle
    /\ credentials \in BOOLEAN
    /\ generation = GenIdle
    /\ handling = HandlingIdle

\* start(): the first connectToWhatsApp call
Start ==
    /\ attempts = 0
    /\ attempts' = 1
    /\ UNCHANGED <<sock, isReconnecting, timers, credentials, connection,
                   lastClose, wipeDue, lastSend, aiVars, genVars, handlerVars>>

\* connectToWhatsApp after useMultiFileAuthState resolved: the socket is made
\* with the auth state read from store/auth and its handlers are registered.
AuthStateLoaded ==
    /\ InProgress > 0
    /\ sock' = [id |-> sock.id + 1, registered |-> credentials]
    /\ connection' = "connecting"
    /\ wipeDue' = FALSE
    /\ UNCHANGED <<isReconnecting, timers, attempts, credentials, lastClose,
                   lastSend, aiVars, genVars, handlerVars>>

\* the reconnect callback of setTimeout (the same in both branches)
TimerFire_KeepsFlag ==
    /\ timers > 0
    /\ timers' = timers - 1
    /\ attempts' = attempts + 1
    /\ UNCHANGED <<isReconnecting, sock, credentials, connection, lastClose,
                   wipeDue, lastSend, aiVars, genVars, handlerVars>>

TimerFire ==
    /\ timers > 0
    /\ timers' = timers - 1
    /\ isReconnecting' = FALSE
    /\ attempts' = attempts + 1
    /\ UNCHANGED <<sock, credentials, connection, lastClose, wipeDue, lastSend,
                   aiVars, genVars, handlerVars>>

\* connection.update with connection === 'close'.  wipeOk tells whether
\* rmSync('./store') succeeds; a failure is caught and logged.
CloseEvent(reason, wipeOk) ==
    LET isLoggedOut == reason = LoggedOut
        reconnects == shouldReconnect(isLoggedOut, isReconnecting)
                        /\ isReconnectable(reason)
    IN /\ sock.id > 0
       /\ lastClose.n < MaxCloses
       /\ lastClose' = [n |-> lastClose.n + 1, reason |-> reason,
                        attempts |-> attempts,
                        scheduled |-> isLoggedOut \/ reconnects]
       /\ connection' = "close"
       /\ IF isLoggedOut
          THEN /\ credentials' = (credentials /\ ~wipeOk)
               /\ isReconnecting' = TRUE
               /\ timers' = timers + 1
               /\ wipeDue' = TRUE
          ELSE IF reconnects
          THEN /\ isReconnecting' = TRUE
               /\ timers' = timers + 1
               /\ UNCHANGED <<credentials, wipeDue>>
          ELSE UNCHANGED <<credentials, isReconnecting, timers, wipeDue>>
       /\ UNCHANGED <<sock, attempts, lastSend, aiVars, genVars, handlerVars>>

\* connection.update with connection === 'open'
OpenEvent ==
    /\ sock.id > 0
    /\ isReconnecting' = FALSE
    /\ connection' = "open"
    /\ UNCHANGED <<sock, timers, attempts, credentials, lastClose, wipeDue,
                   lastSend, aiVars, genVars, handlerVars>>

\* creds.update: saveCreds writes the session's credentials to store/auth
CredsUpdate_ClearsFlag ==
    /\ sock.id > 0
    /\ credentials' = TRUE
    /\ wipeDue' = FALSE
    /\ isReconnecting' = FALSE
    /\ UNCHANGED <<sock, timers, attempts, connection, lastClose,
                   lastSend, aiVars, genVars, handlerVars>>

CredsUpdate ==
    /\ sock.id > 0
    /\ credentials' = TRUE
    /\ wipeDue' = FALSE
    /\ UNCHANGED <<sock, isReconnecting, timers, attempts, connection, lastClose,
                   lastSend, aiVars, genVars, handlerVars>>

\* POST /api/message: 503 when getSock() is null, else sock.sendMessage, whose
\* failure (sendOk false) is answered with 500
PostMessage(sendOk) ==
    /\ lastSend' = [via |-> "sendMessage", reached |-> sock.id > 0,
                    connection |-> connection, route |-> "/api/message",
                    answer |-> IF sock.id > 0 /\ sendOk THEN "success" ELSE "error"]
    /\ UNCHANGED <<sock, isReconnecting, timers, attempts, credentials, connection,
                   lastClose, wipeDue, aiVars, genVars, handlerVars>>

\* POST /api/ai after the generate variant settled (aiOk: it returned an
\* AIResponse): the reply is sent when getSock() is not null, and the answer
\* is success whether or not it was; a failure of the variant or of the send
\* is answered with 500
PostAI(aiOk, sendOk) ==
    /\ lastSend' = [via |-> IF aiOk THEN "sendMessage" ELSE "none",
                    reached |-> aiOk /\ sock.id > 0,
                    connection |-> connection, route |-> "/api/ai",
                    answer |-> IF aiOk /\ (sock.id = 0 \/ sendOk)
                               THEN "success" ELSE "error"]
    /\ UNCHANGED <<sock, isReconnecting, timers, attempts, credentials, connection,
                   lastClose, wipeDue, aiVars, genVars, handlerVars>>

\* GET /health: whatsapp: getSock() ? 'connected' : 'disconnected'
health(socket) == IF socket.id > 0 THEN "connected" ELSE "disconnected"

\* handleAIMessage: getSock()!.sendPresenceUpdate('composing' | 'available', chatJid);
\* the handler runs on messages.upsert of a socket, so a socket exists
SendPresenceUpdate ==
    /\ sock.id > 0
    /\ lastSend' = [via |-> "sendPresenceUpdate", reached |-> TRUE,
                    connection |-> connection, route |-> "none",
                    answer |-> "none"]
    /\ UNCHANGED <<sock, isReconnecting, timers, attempts, credentials, connection,
                   lastClose, wipeDue, aiVars, genVars, handlerVars>>

BotNext ==
    \/ Start
    \/ AuthStateLoaded
    \/ TimerFire
    \/ \E reason \in Reasons, wipeOk \in BOOLEAN : CloseEvent(reason, wipeOk)
    \/ OpenEvent
    \/ CredsUpdate
    \/ \E sendOk \in BOOLEAN : PostMessage(sendOk)
    \/ \E aiOk \in BOOLEAN, sendOk \in BOOLEAN : PostAI(aiOk, sendOk)
    \/ SendPresenceUpdate

BotSpec == BotInit /\ [][BotNext]_vars

\* scheduled timers fire, and a dispatched connectToWhatsApp gets its auth state
BotLiveSpec == BotSpec /\ WF_vars(TimerFire) /\ WF_vars(AuthStateLoaded)

\* ------------------------------------------ generate variants: functions
\* obj.a || obj.b || ... || otherwise, for the fields a, b, ... in this order
\* (an absent field reads as undefined)
firstOf(obj, fields, otherwise) ==
    LET present == SelectSeq(fields, LAMBDA f : f \in DOMAIN obj)
    IN IF Len(present) > 0 THEN obj[present[1]] ELSE otherwise

\* Array.prototype.join
RECURSIVE join(_, _)
join(parts, separator) ==
    IF Len(parts) = 0 THEN ""
    ELSE IF Len(parts) = 1 THEN parts[1]
    ELSE parts[1] \o separator \o join(Tail(parts), separator)

\* r => typeof r === 'string' ? r : (r.text || String(r)), for a fragment r
\* with the text given
fragmentText(text) == IF text = "" THEN "[object Object]" ELSE text

\* source => ({sourceType: source.sourceType || 'url', id: source.id, ...})
mapSources(sources) ==
    [i \in 1..Len(sources) |->
        [sourceType |-> sources[i].sourceType, id |-> sources[i].id]]

\* ResponseProcessor.processResponse.  It reads the fields of a raw result
\* (text, reasoningText, toolCallId, toolName, args) and, for the tool calls
\* only, falls back to the fields of an AIResponse (id, type, parameters).
processResponse(result) ==
    LET sources == IF "sources" \in DOMAIN result THEN mapSources(result.sources)
                   ELSE <<>>
        reasoning == IF "reasoning" \in DOMAIN result /\ result.reasoning.isArray
                     THEN join([i \in 1..Len(result.reasoning.parts) |->
                                    fragmentText(result.reasoning.parts[i])], " ")
                     ELSE firstOf(result, <<"reasoningText">>, "")
        toolCalls == firstOf(result, <<"toolCalls">>, <<>>)
    IN [content |-> firstOf(result, <<"text">>, ""),
        sources |-> sources,
        reasoning |-> ReasoningString(reasoning),
        toolCalls |-> [i \in 1..Len(toolCalls) |->
                        [id |-> firstOf(toolCalls[i], <<"toolCallId", "id">>, "undefined"),
                         type |-> firstOf(toolCalls[i], <<"toolName", "type">>, "undefined"),
                         parameters |-> firstOf(toolCalls[i],
                                            <<"args", "input", "parameters">>, "{}")]]]

InferredToolCall ==
    [toolCallId |-> "google-search-inferred", toolName |-> "google_search",
     args |-> "search query inferred from sources"]

\* ai-extensions: sources, or grounding metadata without explicit tool calls,
\* add the inferred search call
inferToolCalls(result) ==
    IF Len(result.sources) > 0
        \/ (result.grounding /\ Len(result.toolCalls) = 0)
    THEN Append(result.toolCalls, InferredToolCall)
    ELSE result.toolCalls

\* the AIResponse built by generateWithThinking and generateWithMedia
extensionResponse(result) ==
    LET toolCalls == inferToolCalls(result)
    IN [content |-> result.text,
        sources |-> mapSources(result.sources),
        reasoning |-> IF result.reasoning.isArray
                      THEN ReasoningString(join(result.reasoning.parts, "\n"))
                      ELSE result.reasoning,
        toolCalls |-> [i \in 1..Len(toolCalls) |->
                            [id |-> toolCalls[i].toolCallId,
                             name |-> toolCalls[i].toolName,
                             parameters |-> toolCalls[i].args]]]

\* ToolManager.getTools: one descriptor per true flag; undefined for none
getTools_EmptyObject(useSearch, useUrlContext, useCodeExecution) ==
    [defined |-> TRUE,
     keys |-> (IF useSearch THEN {"search"} ELSE {})
                \cup (IF useUrlContext THEN {"getUrlContent"} ELSE {})
                \cup (IF useCodeExecution THEN {"executeCode"} ELSE {})]

getTools(useSearch, useUrlContext, useCodeExecution) ==
    LET tools == (IF useSearch THEN {"search"} ELSE {})
                    \cup (IF useUrlContext THEN {"getUrlContent"} ELSE {})
                    \cup (IF useCodeExecution THEN {"executeCode"} ELSE {})
    IN IF Cardinality(tools) > 0 THEN [defined |-> TRUE, keys |-> tools]
       ELSE NoTools

\* ai-extensions build their tools in place, under the provider's names
extensionTools(useSearch, useUrlContext, useCodeExecution) ==
    LET tools == (IF useSearch THEN {"google_search"} ELSE {})
                    \cup (IF useUrlContext THEN {"url_context"} ELSE {})
                    \cup (IF useCodeExecution THEN {"code_execution"} ELSE {})
    IN IF Cardinality(tools) > 0 THEN [defined |-> TRUE, keys |-> tools]
       ELSE NoTools

toolsOf(variant, options) ==
    IF variant = "generateResponse"
    THEN getTools(options.useSearch, options.useUrlContext, options.useCodeExecution)
    ELSE extensionTools(options.useSearch, options.useUrlContext,
                        options.useCodeExecution)

\* the text of the user turn: generateResponse takes the prompt as it is,
\* the ai-extensions put senderName before it whenever senderName is given
userMessageOf(variant, call) ==
    IF variant = "generateResponse" THEN call.prompt
    ELSE IF call.senderName # "" THEN call.senderName \o ": " \o call.prompt
    ELSE call.prompt

respond(variant, result) ==
    IF variant = "generateResponse" THEN processResponse(result)
    ELSE extensionResponse(result)

ErrorPrefix(variant) ==
    IF variant = "generateResponse" THEN "AI service error"
    ELSE IF variant = "generateWithThinking" THEN "AI thinking generation failed"
    ELSE "AI media generation failed"

\* the catch blocks: new Error(`<prefix>: ${error instanceof Error ? error.message : 'Unknown error'}`)
wrapError_Rethrow(prefix, thrown) ==
    [wrapped |-> FALSE, prefix |-> "none", detail |-> thrown.message]

wrapError(prefix, thrown) ==
    [wrapped |-> TRUE, prefix |-> prefix,
     detail |-> IF thrown.isError THEN thrown.message ELSE "Unknown error"]

\* what handleAIMessage sends from its catch block
failureReply_LeaksError(error) ==
    [kind |-> "reply", text |-> error.detail, sources |-> 0, tools |-> <<>>]

failureReply(error) == Apology

\* shouldTriggerAI: the content starts with one of the triggers
shouldTriggerAI(content) == content.command \in Commands

\* parseAICommand: the flags of the command and the prompt, which is the
\* content without the command, and for /help the whole content
parseAICommand_KeepsCommand(content) ==
    [useSearch |-> content.command = "/search",
     useUrlContext |-> FALSE,
     useCodeExecution |-> content.command = "/code",
     useThinking |-> content.command = "/think",
     prompt |-> content.command \o content.body,
     isHelp |-> content.command = "/help"]

parseAICommand(content) ==
    [useSearch |-> content.command = "/search",
     useUrlContext |-> FALSE,
     useCodeExecution |-> content.command = "/code",
     useThinking |-> content.command = "/think",
     prompt |-> IF content.command = "/help"
                THEN IF content.body = "" THEN content.command
                     ELSE content.command \o " " \o content.body
                ELSE content.body,
     isHelp |-> content.command = "/help"]

\* formatToolUsage: the labels of the tool calls whose toolName is one of the
\* three tools (a tool call without the field toolName has none)
ToolLabels ==
    [google_search |-> "Web Search", code_execution |-> "Code Execution",
     url_context |-> "URL Context"]

RECURSIVE formatToolUsage(_)
formatToolUsage(toolCalls) ==
    IF Len(toolCalls) = 0 THEN <<>>
    ELSE LET tc == Head(toolCalls)
         IN (IF "toolName" \in DOMAIN tc /\ tc.toolName \in DOMAIN ToolLabels
             THEN <<ToolLabels[tc.toolName]>> ELSE <<>>)
                \o formatToolUsage(Tail(toolCalls))

\* responseText = response.content || 'No response generated', then the
\* source list and the tools used
replyOf(response) ==
    [kind |-> "reply",
     text |-> IF response.content = "" THEN "No response generated"
              ELSE response.content,
     sources |-> Len(response.sources),
     tools |-> formatToolUsage(response.toolCalls)]

\* ------------------------------------ generate variants and handler: actions
HandlerInit ==
    /\ AIIdle
    /\ BotIdle
    /\ credentials = FALSE
    /\ generation = GenIdle
    /\ handling = HandlingIdle

\* a generate variant up to its await of generateText
Awaiting(variant, caller, options, call) ==
    [GenIdle EXCEPT !.pc = "awaiting", !.variant = variant, !.caller = caller,
                    !.options = options, !.tools = toolsOf(variant, options),
                    !.call = call, !.userMessage = userMessageOf(variant, call)]

\* a generate variant called from outside the message handler (POST /api/ai, tests)
DirectCall(variant, options, call) ==
    /\ generation.pc = "idle"
    /\ handling.pc = "idle"
    /\ generation' = Awaiting(variant, "direct", options, call)
    /\ UNCHANGED <<handling, aiVars, botVars>>

\* generateText resolves: the variant builds its AIResponse and returns it
VariantResolves(result) ==
    /\ generation.pc = "awaiting"
    /\ generation' = [generation EXCEPT !.pc = "returned", !.result = result,
                            !.response = respond(generation.variant, result)]
    /\ UNCHANGED <<handling, aiVars, botVars>>

\* generateText rejects: the catch block of the variant
VariantRejects(thrown) ==
    /\ generation.pc = "awaiting"
    /\ generation' = [generation EXCEPT !.pc = "thrown", !.thrown = thrown,
                            !.error = wrapError(ErrorPrefix(generation.variant), thrown)]
    /\ UNCHANGED <<handling, aiVars, botVars>>

\* handleMessage after handleAIMessage returned, or after its own catch
\* block, or without a call of handleAIMessage: it calls saveMessageToSheets
\* for the inbound message, without awaiting it, and is done
Completed_LogsTwice(h) ==
    [h EXCEPT !.pc = "done", !.pending = FALSE, !.outcome = "returned",
              !.logs.inbound = "pending",
              !.handed = @ \o <<"inbound", "inbound">>]

Completed(h) ==
    [h EXCEPT !.pc = "done", !.pending = FALSE, !.outcome = "returned",
              !.logs.inbound = "pending", !.handed = Append(@, "inbound")]

\* the message as handleMessage reads it, before it acts on it
Read(h, m) ==
    [h EXCEPT !.type = m.type, !.fromMe = m.fromMe, !.group = m.group,
              !.command = m.content.command, !.bare = (m.content.body = "")]

\* handleAIMessage up to its first await: it asks for a message when the
\* prompt is empty and else sets the presence to composing
Triggered(h, content) ==
    LET parsed == parseAICommand(content)
    IN [h EXCEPT !.pc = IF parsed.prompt = "" THEN "provide" ELSE "composing",
                 !.useThinking = parsed.useThinking,
                 !.options = [useSearch |-> parsed.useSearch,
                              useUrlContext |-> parsed.useUrlContext,
                              useCodeExecution |-> parsed.useCodeExecution],
                 !.prompt = parsed.prompt,
                 !.isHelp = parsed.isHelp]

\* messages.upsert with one message: a protocol message is skipped; a
\* message that is not from the bot and triggers the AI goes to
\* handleAIMessage; any other message is only saved
MessageUpsert_IgnoresFromMe(m) ==
    /\ handling.pc = "idle"
    /\ generation.pc = "idle"
    /\ handling' =
          IF m.type = "protocolMessage"
          THEN [Read(handling, m) EXCEPT !.pc = "done", !.outcome = "skipped"]
          ELSE IF shouldTriggerAI(m.content)
          THEN Triggered(Read(handling, m), m.content)
          ELSE Completed(Read(handling, m))
    /\ UNCHANGED <<generation, aiVars, botVars>>

MessageUpsert(m) ==
    /\ handling.pc = "idle"
    /\ generation.pc = "idle"
    /\ handling' =
          IF m.type = "protocolMessage"
          THEN [Read(handling, m) EXCEPT !.pc = "done", !.outcome = "skipped"]
          ELSE IF ~m.fromMe /\ shouldTriggerAI(m.content)
          THEN Triggered(Read(handling, m), m.content)
          ELSE Completed(Read(handling, m))
    /\ UNCHANGED <<generation, aiVars, botVars>>

\* an exception leaves handleAIMessage: the catch block of handleMessage
\* sends the apology
Escaped(h) == [h EXCEPT !.pc = "outerApology", !.pending = TRUE, !.transportFailed = TRUE]

\* await sendMessage('Please provide a message.') settles
ProvideSettles(ok) ==
    /\ handling.pc = "provide"
    /\ handling' = IF ok
                   THEN Completed([handling EXCEPT !.delivered = Append(@, PleaseProvide)])
                   ELSE Escaped(handling)
    /\ UNCHANGED <<generation, aiVars, botVars>>

\* await sendPresenceUpdate('composing') settles; then the variant is called
ComposingSettles(ok) ==
    /\ handling.pc = "composing"
    /\ IF ok
       THEN /\ handling' = [handling EXCEPT !.pc = "generating",
                    !.presence = Append(@, [update |-> "composing", ok |-> TRUE])]
            /\ generation' = Awaiting(IF handling.useThinking
                                      THEN "generateWithThinking"
                                      ELSE "generateResponse", "handler",
                                      handling.options,
                                      [prompt |-> handling.prompt,
                                       senderName |-> "alice",
                                       group |-> handling.group])
       ELSE /\ handling' = Escaped([handling EXCEPT
                    !.presence = Append(@, [update |-> "composing", ok |-> FALSE])])
            /\ UNCHANGED generation
    /\ UNCHANGED <<aiVars, botVars>>

\* the awaited variant settled: the reply is sent, or the catch block of
\* handleAIMessage sends what failureReply says
HandlerResumes ==
    /\ handling.pc = "generating"
    /\ generation.pc \in {"returned", "thrown"}
    /\ handling' = IF generation.pc = "returned"
                   THEN [handling EXCEPT !.pc = "replying"]
                   ELSE [handling EXCEPT !.pc = "apologizing", !.aiFailed = TRUE]
    /\ UNCHANGED <<generation, aiVars, botVars>>

\* await sock.sendMessage(responseText) settles; after it saveMessageToSheets
\* is called for the reply, without awaiting it
ReplySettles(ok) ==
    /\ handling.pc = "replying"
    /\ handling' = IF ok
                   THEN [handling EXCEPT !.pc = "available",
                            !.delivered = Append(@, replyOf(generation.response)),
                            !.logs.outbound = "pending",
                            !.handed = Append(@, "outbound")]
                   ELSE [handling EXCEPT !.pc = "apologizing",
                            !.transportFailed = TRUE]
    /\ UNCHANGED <<generation, aiVars, botVars>>

\* await sendMessage(...) in the catch block of handleAIMessage settles; the
\* finally block runs whether it succeeded or not
ApologySettles_SkipsFinally(ok) ==
    /\ handling.pc = "apologizing"
    /\ handling' = IF ok
                   THEN [handling EXCEPT !.pc = "available",
                            !.delivered = Append(@, failureReply(generation.error))]
                   ELSE Escaped(handling)
    /\ UNCHANGED <<generation, aiVars, botVars>>

ApologySettles(ok) ==
    /\ handling.pc = "apologizing"
    /\ handling' = IF ok
                   THEN [handling EXCEPT !.pc = "available",
                            !.delivered = Append(@, failureReply(generation.error))]
                   ELSE [handling EXCEPT !.pc = "available", !.pending = TRUE,
                            !.transportFailed = TRUE]
    /\ UNCHANGED <<generation, aiVars, botVars>>

\* await sendPresenceUpdate('available') in the finally block settles
AvailableSettles(ok) ==
    LET settled == [handling EXCEPT
                        !.presence = Append(@, [update |-> "available", ok |-> ok])]
    IN /\ handling.pc = "available"
       /\ handling' = IF ~ok THEN Escaped(settled)
                      ELSE IF handling.pending
                      THEN [settled EXCEPT !.pc = "outerApology"]
                      ELSE Completed(settled)
    /\ UNCHANGED <<generation, aiVars, botVars>>

\* await sendMessage(apology) in the catch block of handleMessage settles;
\* its failure is caught and logged
OuterApologySettles(ok) ==
    /\ handling.pc = "outerApology"
    /\ handling' = IF ok
                   THEN Completed([handling EXCEPT !.delivered = Append(@, Apology)])
                   ELSE Completed([handling EXCEPT !.transportFailed = TRUE])
    /\ UNCHANGED <<generation, aiVars, botVars>>

\* saveMessageToSheets after await sheetsService.appendMessage settled: a
\* failure is caught and logged there
LogSettles_SurfacesFailure(which, ok) ==
    /\ handling.logs[which] = "pending"
    /\ handling' = IF ok THEN [handling EXCEPT !.logs[which] = "saved"]
                   ELSE [handling EXCEPT !.logs[which] = "failed",
                                         !.delivered = Append(@, Apology)]
    /\ UNCHANGED <<generation, aiVars, botVars>>

LogSettles(which, ok) ==
    /\ handling.logs[which] = "pending"
    /\ handling' = [handling EXCEPT
                        !.logs[which] = IF ok THEN "saved" ELSE "failed"]
    /\ UNCHANGED <<generation, aiVars, botVars>>

HandlerNext ==
    \/ \E variant \in Variants, options \in Options, call \in Calls :
          DirectCall(variant, options, call)
    \/ \E result \in RawResults : VariantResolves(result)
    \/ \E thrown \in ThrownValues : VariantRejects(thrown)
    \/ \E m \in Inbound : MessageUpsert(m)
    \/ \E ok \in BOOLEAN : ProvideSettles(ok)
    \/ \E ok \in BOOLEAN : ComposingSettles(ok)
    \/ HandlerResumes
    \/ \E ok \in BOOLEAN : ReplySettles(ok)
    \/ \E ok \in BOOLEAN : ApologySettles(ok)
    \/ \E ok \in BOOLEAN : AvailableSettles(ok)
    \/ \E ok \in BOOLEAN : OuterApologySettles(ok)
    \/ \E which \in DOMAIN NoLogs, ok \in BOOLEAN : LogSettles(which, ok)

HandlerSpec == HandlerInit /\ [][HandlerNext]_vars

\* every await of the handler settles, and so does the provider call
HandlerProgress ==
    \/ \E result \in RawResults : VariantResolves(result)
    \/ \E thrown \in ThrownValues : VariantRejects(thrown)
    \/ \E ok \in BOOLEAN : ProvideSettles(ok)
    \/ \E ok \in BOOLEAN : ComposingSettles(ok)
    \/ HandlerResumes
    \/ \E ok \in BOOLEAN : ReplySettles(ok)
    \/ \E ok \in BOOLEAN : ApologySettles(ok)
    \/ \E ok \in BOOLEAN : AvailableSettles(ok)
    \/ \E ok \in BOOLEAN : OuterApologySettles(ok)

HandlerLiveSpec == HandlerSpec /\ WF_vars(HandlerProgress)

\* ------------------------------------------------------------------ steps
\* The step in which a call for chatId is received (generateResponse runs up
\* to its await); the new call is calls'[received'].
StartedOn(chatId) ==
    /\ received' = received + 1
    /\ calls'[received'].chatId = chatId

\* The step in which suspended call n, made with a chat id, resumes with the
\* provider's result, and the step in which it resumes in the catch block.
Returned(n) ==
    /\ n \in DOMAIN calls
    /\ n \notin DOMAIN calls'
    /\ calls[n].chatId # NoChat
    /\ lastDone'[calls[n].chatId].call = n

Failed(n) ==
    /\ n \in DOMAIN calls
    /\ n \notin DOMAIN calls'
    /\ calls[n].chatId # NoChat
    /\ lastDone'[calls[n].chatId].call # n

Age(history, chatId, t) == t - history[chatId].lastActivity

\* the turns of call n's exchange occur in messages, adjacent and in order
HasExchange(messages, n) ==
    \E i \in 1..(Len(messages) - 1) :
        /\ messages[i].role = "user" /\ messages[i].call = n
        /\ messages[i + 1].role = "assistant" /\ messages[i + 1].call = n

\* the stored turns of every conversation are in the order the calls were received
ReceiptOrder(history) ==
    \A c \in DOMAIN history :
        \A i, j \in 1..Len(history[c].messages) :
            i < j => history[c].messages[i].call <= history[c].messages[j].call

\* The step in which a call of saveMessageToSheets settles (saved or failed),
\* and the step in which the chat receives the reply to the message.
LogStep ==
    \E which \in DOMAIN NoLogs :
        /\ handling.logs[which] = "pending"
        /\ handling'.logs[which] \in {"saved", "failed"}

ReplyStep ==
    /\ Len(handling'.delivered) = Len(handling.delivered) + 1
    /\ handling'.delivered[Len(handling'.delivered)].kind = "reply"

\* The context that getConversationContext returned to the call received in
\* this step: the call's message list without the user turn it added.
ReturnedContext ==
    SubSeq(calls'[received'].messages, 1, Len(calls'[received'].messages) - 1)

\* ----------------------------------------------------------------- claims

\* C1: two generate calls for the same conversation id whose provider calls
\* overlap are serialized: when the call received first succeeds, every call
\* for that id received later and already suspended at the provider has the
\* first call's exchange in its message list before its own user turn, and the
\* stored turns stay in receipt order.  (The code has no serialization.)
C1_OverlappingCallsSerialized ==
    [][\A a \in DOMAIN calls :
          Returned(a) =>
            /\ \A b \in DOMAIN calls :
                  (b > a /\ calls[b].chatId = calls[a].chatId)
                    => HasExchange(calls[b].messages, a)
            /\ ReceiptOrder(conversationHistory')]_vars

\* C2 as claimed: when the provider call of a generate call throws, the store
\* entry for its id is what it was before the call was made: same presence,
\* same turns, same lastActivity.
C2_FailedCallLeavesEntryAsBefore ==
    [][\A n \in DOMAIN calls :
          Failed(n) =>
            EntryOf(conversationHistory', calls[n].chatId) = calls[n].before]_vars

\* C2 as amended: the failure itself writes nothing; the store after the catch
\* block is the store before it.  What the call changed, it changed when it
\* fetched its context (an empty entry created, turns truncated, expired
\* conversations swept).
C2_FailureWritesNothing ==
    [][\A n \in DOMAIN calls :
          Failed(n) => conversationHistory' = conversationHistory]_vars

\* C2 witness: the only call received has failed (it is neither suspended nor
\* returned) and the empty entry its context fetch created is still there.
C2_Witness ==
    /\ received = 1
    /\ calls = EmptyMap
    /\ \A c \in ChatIds : lastDone[c] = NoneDone
    /\ \E c \in DOMAIN conversationHistory : conversationHistory[c].messages = <<>>

\* C3: a generate call with a conversation id whose provider call succeeds,
\* with no clearConversation(id) during the call, appends exactly its user turn
\* and its assistant turn to that conversation and sets lastActivity to the
\* time of the append.  (Stated here for the calls during which no other
\* call's sweep deleted the entry either.)
C3_SuccessAppendsExchange ==
    [][\A n \in DOMAIN calls :
          (Returned(n) /\ ~calls[n].cleared /\ ~calls[n].swept) =>
            LET c == calls[n].chatId
            IN /\ c \in DOMAIN conversationHistory
               /\ c \in DOMAIN conversationHistory'
               /\ \E text \in Texts :
                    conversationHistory'[c].messages =
                        conversationHistory[c].messages
                            \o <<calls[n].userMessage, AssistantMessage(text, n)>>
               /\ conversationHistory'[c].lastActivity = now]_vars

\* C4: a generate call for a conversation whose lastActivity is more than 24
\* hours old assembles a message list that holds only the new user turn.
C4_ExpiredHistoryNotSent ==
    [][\A c \in ChatIds :
          (StartedOn(c) /\ Expired(conversationHistory, c, now)) =>
            calls'[received'].messages = <<calls'[received'].userMessage>>]_vars

\* C5: immediately after getConversationContext(id, w) returns, the stored
\* turn count of id is at most 2w.
C5_StoredCountWithinWindowAfterGetContext ==
    [][\A c \in ChatIds :
          (StartedOn(c) /\ c \in DOMAIN conversationHistory') =>
            Len(conversationHistory'[c].messages) <= 2 * calls'[received'].w]_vars

\* C5 witness: the call received last found more than 2w turns stored, and the
\* entry now holds exactly 2w.
C5_Witness ==
    \E n \in DOMAIN calls :
        LET call == calls[n]
        IN /\ n = received
           /\ call.chatId \in DOMAIN conversationHistory
           /\ call.before.present
           /\ Len(call.before.messages) > 2 * call.w
           /\ call.appended = 0
           /\ ~call.cleared
           /\ Len(conversationHistory[call.chatId].messages) = 2 * call.w

\* C6 as claimed: also in the state right after an exchange is appended, the
\* conversation holds at most 2 x window turns (the window of the appending call).
C6_CountWithinWindowAfterAppend ==
    [][\A n \in DOMAIN calls :
          (Returned(n) /\ calls[n].chatId \in DOMAIN conversationHistory') =>
            Len(conversationHistory'[calls[n].chatId].messages) <= 2 * calls[n].w]_vars

\* C6 as amended: right after an exchange is appended the conversation holds
\* at most 2 x window turns plus two turns for every exchange appended since
\* the appending call fetched its context, its own included.
C6_CountAfterAppendBounded ==
    [][\A n \in DOMAIN calls :
          (Returned(n) /\ calls[n].chatId \in DOMAIN conversationHistory') =>
            Len(conversationHistory'[calls[n].chatId].messages)
                <= 2 * calls[n].w + 2 * (calls[n].appended + 1)]_vars

\* C6 witness: a conversation holds more than 2w turns for the window w of a
\* call still suspended, one exchange having been appended since that call
\* fetched its context.
C6_Witness ==
    \E n \in DOMAIN calls :
        LET call == calls[n]
        IN /\ call.chatId \in DOMAIN conversationHistory
           /\ call.appended = 1
           /\ Len(conversationHistory[call.chatId].messages) = 2 * call.w + 2

\* C7: after getConversationContext returns, whichever id it accessed, the
\* store holds no conversation older than the TTL, and every conversation that
\* was in the store and is not older than the TTL is still there.
C7_SweepRemovesExactlyExpired ==
    [][\A c \in ChatIds :
          StartedOn(c) =>
            /\ \A d \in DOMAIN conversationHistory' :
                  Age(conversationHistory', d, now) <= MAX_HISTORY_AGE
            /\ \A d \in DOMAIN conversationHistory :
                  Age(conversationHistory, d, now) <= MAX_HISTORY_AGE
                    => d \in DOMAIN conversationHistory']_vars

\* C7 witness: the call received last found its own entry expired, the entry
\* is gone, and the other conversation, exactly 24h or less old, is kept.
C7_Witness ==
    \E n \in DOMAIN calls :
        LET call == calls[n]
        IN /\ n = received
           /\ call.before.present
           /\ now - call.before.lastActivity > MAX_HISTORY_AGE
           /\ call.chatId \notin DOMAIN conversationHistory
           /\ \E d \in DOMAIN conversationHistory :
                 Age(conversationHistory, d, now) <= MAX_HISTORY_AGE

\* C8: addToConversationHistory for an id that is not in the store changes
\* nothing in the store, and the call completes normally.
C8_AppendOnAbsentIdIsNoOp ==
    [][\A n \in DOMAIN calls :
          (Returned(n) /\ calls[n].chatId \notin DOMAIN conversationHistory) =>
            conversationHistory' = conversationHistory]_vars

\* C8 witness: at time 0 (nothing can have expired) a call has returned for an
\* id, no clearConversation followed it, and the id is not in the store while
\* the other conversation is: the id was cleared during the call and the
\* append found it absent.
C8_Witness ==
    \E c \in ChatIds :
        /\ now = 0
        /\ lastDone[c].call # 0
        /\ lastDone[c].cleared
        /\ c \notin DOMAIN conversationHistory
        /\ DOMAIN conversationHistory # {}

\* C9: in every reachable state each stored conversation is a sequence of
\* whole exchanges: an even number of turns, user and assistant alternating
\* from the first turn on, each assistant turn answering the user turn before it.
C9_WholeExchanges ==
    \A c \in DOMAIN conversationHistory :
        LET messages == conversationHistory[c].messages
        IN /\ Len(messages) % 2 = 0
           /\ \A i \in 1..Len(messages) :
                 messages[i].role = (IF i % 2 = 1 THEN "user" ELSE "assistant")
           /\ \A i \in 1..Len(messages) :
                 i % 2 = 0 => messages[i].call = messages[i - 1].call

\* C9 witness: two overlapping calls appended out of receipt order, a later
\* call truncated the conversation, and the exchange kept is the first call's.
C9_Witness ==
    \E n \in DOMAIN calls :
        LET call == calls[n]
        IN /\ call.chatId \in DOMAIN conversationHistory
           /\ Len(call.before.messages) = 4
           /\ call.before.messages[1].call = 2
           /\ Len(conversationHistory[call.chatId].messages) = 2
           /\ conversationHistory[call.chatId].messages[1].call = 1

\* C10: when a call for id has returned and the next call for id is received
\* with no clearConversation(id) and no TTL sweep of id's entry since the
\* first was received (other than the first call's own), the entry not
\* expired and a window of at least 1, the message list of the second call
\* holds the first call's user turn and assistant turn, in that order, before
\* its own user turn, which is last.
C10_NextCallSeesPreviousExchange ==
    [][\A c \in ChatIds :
          (/\ StartedOn(c)
           /\ lastDone[c].call # 0
           /\ ~lastDone[c].cleared
           /\ ~lastDone[c].swept
           /\ ~Expired(conversationHistory, c, now)
           /\ calls'[received'].w >= 1) =>
            LET messages == calls'[received'].messages
            IN /\ HasExchange(SubSeq(messages, 1, Len(messages) - 1), lastDone[c].call)
               /\ messages[Len(messages)] = calls'[received'].userMessage]_vars


\* The step in which clearConversation(chatId) runs and changes something:
\* no call is received or resumed, time stands still, and whatever changes
\* concerns chatId only.
Cleared(chatId) ==
    /\ received' = received
    /\ now' = now
    /\ DOMAIN calls' = DOMAIN calls
    /\ (conversationHistory' # conversationHistory \/ calls' # calls
            \/ lastDone' # lastDone)
    /\ \A d \in ChatIds \ {chatId} :
          /\ EntryOf(conversationHistory', d) = EntryOf(conversationHistory, d)
          /\ lastDone'[d] = lastDone[d]
    /\ \A i \in DOMAIN calls : calls[i].chatId # chatId => calls'[i] = calls[i]

NoSummary == [messageCount |-> 0, lastActivity |-> Null]

\* C11: right after clearConversation(id) the summary of id is turn count 0
\* and lastActivity null, whatever the conversation held and whatever its
\* age, and the summary stays so in every step that is not a
\* getConversationContext for id (a call for id being received).
C11_SummaryEmptyAfterClear ==
    [][\A c \in ChatIds :
          /\ Cleared(c) =>
                getConversationSummary(conversationHistory', c) = NoSummary
          /\ (getConversationSummary(conversationHistory, c) = NoSummary
                /\ ~StartedOn(c)) =>
                getConversationSummary(conversationHistory', c) = NoSummary]_vars

\* C11 witness: a conversation that held an exchange was cleared while two
\* calls for it were suspended; one of them has returned since (its append
\* found nothing), time has passed, and the summary is still empty.
C11_Witness ==
    \E c \in ChatIds :
        /\ getConversationSummary(conversationHistory, c) = NoSummary
        /\ now > 0
        /\ lastDone[c].call # 0
        /\ lastDone[c].cleared
        /\ \E n \in DOMAIN calls :
              /\ calls[n].chatId = c
              /\ calls[n].cleared
              /\ Len(calls[n].before.messages) >= 2

\* The step in which the connection.update handler handles a close event
\* whose reason is in the set reasons.
ClosedWith(reasons) ==
    /\ lastClose'.n = lastClose.n + 1
    /\ lastClose'.reason \in reasons

\* C12: in every reachable state at most one reconnect timer is scheduled.
\* (The logged-out branch schedules one whatever isReconnecting is, and an
\* open event resets the flag while a timer is pending.)
C12_AtMostOneReconnectTimer == timers <= 1

\* C13: a transient close event that arrives while isReconnecting is true
\* schedules no reconnect and changes no state of the bot.
C13_TransientCloseIgnoredWhileReconnecting ==
    [][(ClosedWith(Transient) /\ isReconnecting) =>
          UNCHANGED <<isReconnecting, timers, attempts, sock, credentials>>]_vars

\* C13 witness: the last close event was transient, its handler scheduled
\* nothing, and the one reconnect that was pending when it arrived still is.
C13_Witness ==
    /\ lastClose.reason \in Transient
    /\ ~lastClose.scheduled
    /\ connection = "close"
    /\ isReconnecting
    /\ timers = 1

\* C14: after any transient close event a new connection attempt is
\* eventually dispatched, whether or not isReconnecting was set when it
\* arrived, given that scheduled timers fire; and isReconnecting never stays
\* true forever.
C14_TransientCloseLeadsToAttempt ==
    /\ [](lastClose.reason \in Transient => <>(attempts > lastClose.attempts))
    /\ (isReconnecting ~> ~isReconnecting)

\* C14 witness: a transient close event arrived while a reconnect was pending
\* and was ignored, and a connection attempt has been dispatched since.
C14_Witness ==
    /\ lastClose.reason \in Transient
    /\ ~lastClose.scheduled
    /\ attempts > lastClose.attempts
    /\ ~isReconnecting

\* C15: after a logged-out close event the connection attempt that follows
\* starts without credentials, also when the logged-out event arrives while a
\* reconnect is pending and also when deleting the credential store fails.
\* (Checked for the attempts before which no creds.update saved new credentials.)
C15_AttemptAfterLogoutHasNoCredentials ==
    [][(sock'.id = sock.id + 1 /\ wipeDue) => ~sock'.registered]_vars

\* C16: a close event whose reason is neither logged-out nor transient (a
\* close without status code included) schedules no connection attempt and
\* leaves isReconnecting unchanged.
C16_UnrecognizedCloseSchedulesNothing ==
    [][ClosedWith(Unrecognized) =>
          UNCHANGED <<isReconnecting, timers, attempts>>]_vars

\* C16 witness: a close without status code was handled while no reconnect
\* was pending, and none is pending or in progress after it.
C16_Witness ==
    /\ lastClose.reason = "undefined"
    /\ connection = "close"
    /\ ~isReconnecting
    /\ timers = 0
    /\ InProgress = 0
    /\ attempts = lastClose.attempts

\* C17: sendMessage and sendPresenceUpdate reach the socket only while the
\* session is online (the last connection.update was 'open').
C17_SendsOnlyWhileOnline ==
    lastSend.reached => lastSend.connection = "open"

\* C18: when the AI call fails for a triggered inbound message, handleMessage
\* ends normally, the chat has received no reply text, and it has received
\* the apology (exactly the apology when no send to the socket failed).
C18_AIFailureGivesApology ==
    handling.aiFailed =>
        /\ \A i \in 1..Len(handling.delivered) : handling.delivered[i] = Apology
        /\ handling.pc = "done" =>
              /\ handling.outcome = "returned"
              /\ ~handling.pending
              /\ ~handling.transportFailed => handling.delivered = <<Apology>>

\* C18 witness: the variant called for the message threw its wrapped error,
\* the handling is over, and the chat holds the apology alone.
C18_Witness ==
    /\ handling.pc = "done"
    /\ handling.aiFailed
    /\ ~handling.transportFailed
    /\ generation.pc = "thrown"
    /\ generation.caller = "handler"
    /\ handling.delivered = <<Apology>>

\* C19: every failure inside generateResponse, generateWithThinking or
\* generateWithMedia reaches the caller as a wrapped error with the prefix of
\* the variant that carries the message of the underlying Error ('Unknown
\* error' when what was thrown is no Error); what the provider threw is never
\* what the caller gets.
C19_FailuresReachCallerWrapped ==
    generation.pc = "thrown" =>
        /\ generation.error.wrapped
        /\ generation.error.prefix = ErrorPrefix(generation.variant)
        /\ generation.thrown.isError =>
              generation.error.detail = generation.thrown.message
        /\ ~generation.thrown.isError => generation.error.detail = "Unknown error"

\* C19 witness: generateWithMedia, called directly, failed with an Error and
\* its caller holds the wrapped error carrying that Error's message.
C19_Witness ==
    /\ generation.pc = "thrown"
    /\ generation.variant = "generateWithMedia"
    /\ generation.caller = "direct"
    /\ generation.thrown.isError
    /\ generation.error.wrapped
    /\ generation.error.detail = generation.thrown.message

\* C20: in every generate variant, a raw result with sources or grounding
\* metadata and no explicit tool-call record gives an AIResponse with exactly
\* one tool call, the inferred search call.  (generateResponse goes through
\* ResponseProcessor.processResponse, which infers nothing.)
C20_SearchCallInferred ==
    (/\ generation.pc = "returned"
     /\ (Len(generation.result.sources) > 0 \/ generation.result.grounding)
     /\ Len(generation.result.toolCalls) = 0) =>
        /\ Len(generation.response.toolCalls) = 1
        /\ generation.response.toolCalls[1].id = InferredToolCall.toolCallId

\* C21: when the raw provider result carries one or more explicit tool-call
\* records, the tool calls of the returned AIResponse are exactly those
\* records, in order: as many, with the same ids, and no inferred search
\* record among them, whatever the sources and the grounding metadata.  (The
\* ai-extensions add the inferred record whenever the sources are non-empty.)
C21_ExplicitToolCallsKept ==
    (generation.pc = "returned" /\ Len(generation.result.toolCalls) > 0)
        => /\ Len(generation.response.toolCalls) = Len(generation.result.toolCalls)
           /\ \A i \in 1..Len(generation.result.toolCalls) :
                generation.response.toolCalls[i].id
                    = generation.result.toolCalls[i].toolCallId

\* C22: applying processResponse to an AIResponse that is already canonical
\* (here: one that processResponse built) returns an AIResponse with the same
\* content, sources, reasoning and tool calls.  (processResponse reads
\* result.text and result.reasoningText, which an AIResponse does not have.)
C22_ProcessResponseIdempotent ==
    (generation.pc = "returned" /\ generation.variant = "generateResponse")
        => processResponse(generation.response) = generation.response

\* C23: for every combination of the flags (search, urlContext,
\* codeExecution) getTools returns exactly one descriptor per true flag and
\* no other, and it returns undefined, never an empty tool set, exactly when
\* no flag is true; so the same flags always give the same shape.
C23_OneDescriptorPerFlag ==
    (generation.pc # "idle" /\ generation.variant = "generateResponse") =>
        LET options == generation.options
            tools == generation.tools
        IN /\ ("search" \in tools.keys) <=> options.useSearch
           /\ ("getUrlContent" \in tools.keys) <=> options.useUrlContext
           /\ ("executeCode" \in tools.keys) <=> options.useCodeExecution
           /\ tools.keys \subseteq {"search", "getUrlContent", "executeCode"}
           /\ tools.defined <=> (options.useSearch \/ options.useUrlContext
                                    \/ options.useCodeExecution)
           /\ tools.defined => tools.keys # {}

\* C23 witness: generateResponse was called with no flag set and hands
\* undefined, not an empty tool set, to the provider.
C23_Witness ==
    /\ generation.pc = "awaiting"
    /\ generation.variant = "generateResponse"
    /\ generation.options = NoOptions
    /\ ~generation.tools.defined
    /\ generation.tools.keys = {}

\* C24: a call of saveMessageToSheets that fails or never settles changes
\* nothing of what the chat receives and delays none of it: the step in which
\* a log call settles leaves the delivered messages, the position of the
\* handler and its outcome as they were, and the reply is delivered before
\* any log call was made, so it waits for none.
C24_LoggingNeverBlocksReply ==
    [][/\ LogStep =>
            /\ handling'.delivered = handling.delivered
            /\ handling'.pc = handling.pc
            /\ handling'.pending = handling.pending
            /\ handling'.outcome = handling.outcome
            /\ generation' = generation
       /\ ReplyStep => handling.logs = NoLogs]_vars

\* C24 witness: the handling is over and the chat holds the reply alone,
\* while the log call for the reply failed and the log call for the inbound
\* message has not settled.
C24_Witness ==
    /\ handling.pc = "done"
    /\ handling.outcome = "returned"
    /\ Len(handling.delivered) = 1
    /\ handling.delivered[1].kind = "reply"
    /\ handling.logs = [inbound |-> "pending", outbound |-> "failed"]

\* C25: GET /health reports the connection as connected only while the
\* session is online: before the first open, and after a close until the
\* next open, it reports disconnected.  (It reports whether a socket was ever
\* made.)
C25_HealthConnectedOnlyWhileOnline ==
    health(sock) = "connected" => connection = "open"

\* C26: whenever POST /api/ai answers with success, the reply was sent over
\* the session, and when there is no session to send it the route answers
\* with an error.  (Without a socket it skips the send and answers success.)
C26_AISuccessMeansReplySent ==
    lastSend.route = "/api/ai" =>
        /\ lastSend.answer = "success" => lastSend.reached
        /\ sock.id = 0 => lastSend.answer = "error"

\* C27: an inbound '/help' message that is not from the bot is answered
\* with the help message that lists the commands, and no generate variant is
\* called for it (so no provider call is made and no conversation touched).
\* (handleAIMessage reads isHelp from parseAICommand and never tests it.)
C27_HelpAnsweredWithoutProvider ==
    handling.isHelp =>
        /\ generation.pc = "idle"
        /\ (handling.pc = "done" /\ ~handling.transportFailed)
                => handling.delivered = <<HelpMessage>>

\* C28: whenever the AIResponse for a triggered message has a tool call for
\* web search, code execution or URL context, the reply the chat receives
\* carries the tool-usage annotation naming that tool.  (formatToolUsage
\* reads tc.toolName; the tool calls of an AIResponse carry type or name.)
C28_ReplyNamesToolsUsed ==
    \A i \in 1..Len(handling.delivered) :
        handling.delivered[i].kind = "reply" =>
            \A j \in 1..Len(generation.response.toolCalls) :
                LET tool == firstOf(generation.response.toolCalls[j],
                                    <<"type", "name">>, "undefined")
                IN tool \in DOMAIN ToolLabels =>
                      \E k \in 1..Len(handling.delivered[i].tools) :
                          handling.delivered[i].tools[k] = ToolLabels[tool]

\* C29: when getConversationContext(id, w) returns, id is present in the
\* store and the returned context is the store's entry for id (so that an
\* append made after the call lands in the conversation that was read), also
\* when id's previous entry had expired.  (The entry is fetched before the
\* sweep, which deletes it when it had expired.)
C29_ReturnedContextIsStoredEntry ==
    [][\A c \in ChatIds :
        StartedOn(c) =>
            /\ c \in DOMAIN conversationHistory'
            /\ conversationHistory'[c].messages = ReturnedContext]_vars

C31_FlagClearedOnlyAtOpenOrAttempt ==
    [][(isReconnecting /\ ~isReconnecting') =>
            \/ (connection' = "open" /\ attempts' = attempts)
            \/ (attempts' = attempts + 1 /\ timers' = timers - 1)]_vars

\* C31 witness: a close scheduled a reconnect and set the flag, the callback
\* ran and dispatched the attempt, and the flag is clear while that attempt
\* has not opened a session.
C31_Witness ==
    /\ lastClose.scheduled
    /\ attempts > lastClose.attempts
    /\ ~isReconnecting
    /\ connection # "open"

\* C32: the reasoning of the normalized response is the texts of the raw
\* reasoning fragments in their input order joined by one separator, and when
\* the raw reasoning is a scalar string it is that string.
\* (ResponseProcessor.processResponse drops a scalar result.reasoning.)
C32_ReasoningJoinedOrPassedThrough ==
    generation.pc = "returned" =>
        LET raw == generation.result.reasoning
            normalized == generation.response.reasoning.text
        IN IF raw.isArray
           THEN \E separator \in {" ", "\n"} : normalized = join(raw.parts, separator)
           ELSE normalized = raw.text

\* C35: in every generate variant the user turn sent to the provider (and
\* stored) is the prompt prefixed with 'senderName: ' when the conversation
\* is a group and the bare prompt otherwise.  (generateResponse never adds the
\* prefix; the ai-extensions add it whenever senderName is given.)
C35_UserTurnPrefixedInGroups ==
    (generation.pc # "idle" /\ generation.call.senderName # "") =>
        generation.userMessage =
            IF generation.call.group
            THEN generation.call.senderName \o ": " \o generation.call.prompt
            ELSE generation.call.prompt

C36_FromSelfNeverAnswered ==
    handling.fromMe =>
        /\ generation.pc = "idle"
        /\ handling.pc \in {"idle", "done"}
        /\ handling.delivered = <<>>
        /\ handling.presence = <<>>

\* C36 witness: a message from the bot whose content is '/ai' followed by a
\* prompt was handled: nothing was sent and the record was handed over.
C36_Witness ==
    /\ handling.pc = "done"
    /\ handling.fromMe
    /\ handling.command = "/ai"
    /\ ~handling.bare
    /\ handling.delivered = <<>>
    /\ handling.handed = <<"inbound">>

\* C37: when clearConversation(id) ran while a call for id was suspended at
\* the provider, the step in which that call resumes with the result leaves
\* id's entry as it was and the summary of id is turn count 0 and
\* lastActivity null.  (addToConversationHistory appends to the entry another
\* call for id made after the clear.)
C37_ClearedStaysClearedAfterCompletion ==
    [][\A n \in DOMAIN calls :
          (Returned(n) /\ calls[n].cleared) =>
              /\ EntryOf(conversationHistory', calls[n].chatId)
                    = EntryOf(conversationHistory, calls[n].chatId)
              /\ getConversationSummary(conversationHistory', calls[n].chatId)
                    = NoSummary]_vars

\* C38: once the composing presence update went out for a triggered message,
\* the handler eventually asks the socket for the available presence update,
\* whether the variant returned or threw and whether the send of the reply
\* or of the apology failed.
C38_ComposingFollowedByAvailable ==
    (\E i \in DOMAIN handling.presence :
        handling.presence[i] = [update |-> "composing", ok |-> TRUE])
    ~> (\E i \in DOMAIN handling.presence :
            /\ handling.presence[i].update = "available"
            /\ \E j \in 1..(i - 1) :
                  handling.presence[j] = [update |-> "composing", ok |-> TRUE])

\* C38 witness: the variant threw, the send of the apology failed too, and
\* the available presence update went out after the composing one.
C38_Witness ==
    /\ handling.aiFailed
    /\ handling.transportFailed
    /\ handling.delivered = <<>>
    /\ handling.presence = <<[update |-> "composing", ok |-> TRUE],
                             [update |-> "available", ok |-> TRUE]>>

\* C39: for a triggered message the chat receives at most one text, whatever
\* fails.  (When the available presence update fails after the reply or the
\* apology was sent, the catch block of handleMessage sends an apology.)
C39_AtMostOneTextPerMessage == Len(handling.delivered) <= 1

\* C40: the record of the inbound message is handed to saveMessageToSheets
\* before the record of the AI reply to it.  (handleAIMessage hands over the
\* reply's record; handleMessage hands over the message's record after
\* handleAIMessage returned.)
C40_InboundRecordHandedFirst ==
    \A i \in DOMAIN handling.handed :
        handling.handed[i] = "outbound" =>
            \E j \in 1..(i - 1) : handling.handed[j] = "inbound"

TypeOK ==
    /\ DOMAIN conversationHistory \subseteq ChatIds
    /\ now >= 0
    /\ received <= MaxCalls

====
